---- MODULE Spec2Model ----
(***************************************************************************)
(* On-disk PID <-> node id indices of swh.graph (src/swh/graph/pid.py) and  *)
(* the compression driver (src/swh/graph/webgraph.py).                     *)
(*                                                                         *)
(* A file is a sequence of bytes.  The 20-byte digest of a PID is scaled   *)
(* to DigestLen bytes and the 8-byte big endian integer to IntLen bytes;   *)
(* every size, offset and slice is then computed as the code computes it.  *)
(***************************************************************************)
EXTENDS Integers, Sequences, FiniteSets, TLC

(* ----------------------------- bounds --------------------------------- *)
MaxVersion == 2     \* scheme versions 1..MaxVersion are valid identifiers
MaxByte == 2        \* digest bytes range over 0..MaxByte
MaxLen == 3         \* at most MaxLen records per file
MaxHandles == 2     \* map objects that may be alive at once
MaxSearchLen == 4   \* at most MaxSearchLen records in a file that is searched

(* ------------------------ module constants ---------------------------- *)
DigestLen == 1      \* the 20 of '20s', scaled: bytes of digest in a record
IntLen == 1         \* the 8 bytes of 'q', scaled: bytes of integer in a record
PID_BIN_SIZE == 2 + DigestLen          \* 'BB20s'
INT_BIN_SIZE == IntLen                 \* '>q'

PidType ==
  [content |-> 1, directory |-> 2, origin |-> 3,
   release |-> 4, revision |-> 5, snapshot |-> 6]

PidTypeCodes == {PidType[n] : n \in DOMAIN PidType}

PidTypeName(code) == CHOOSE n \in DOMAIN PidType : PidType[n] = code

(* ------------------ identifier library (collaborator) ------------------ *)
PID_NAMESPACE == "swh"
PID_VERSION == 1

Bytes == 0..MaxByte
Versions == 1..MaxVersion

Digests == [1..DigestLen -> Bytes]

\* bytes.hex(): two hexadecimal digits per byte, high digit first
hash_to_hex(b) ==
  [i \in 1..(2 * Len(b)) |->
     IF i % 2 = 1 THEN b[(i + 1) \div 2] \div 16 ELSE b[i \div 2] % 16]

\* bytes.fromhex()
fromhex(h) == [i \in 1..(Len(h) \div 2) |-> 16 * h[2 * i - 1] + h[2 * i]]

\* The textual identifier <namespace>:<version>:<type>:<hex digest>, held as
\* the tuple of its colon separated parts.
parse_persistent_identifier(s) ==
  [namespace |-> s[1], scheme_version |-> s[2],
   object_type |-> s[3], object_id |-> s[4]]

\* PersistentId(object_type=..., object_id=<bytes>): namespace and scheme
\* version take the library's defaults.
PersistentId(object_type, object_id) ==
  [namespace |-> PID_NAMESPACE, scheme_version |-> PID_VERSION,
   object_type |-> object_type, object_id |-> hash_to_hex(object_id)]

\* str(PersistentId)
PidToString(p) ==
  <<p.namespace, p.scheme_version, p.object_type, p.object_id>>

\* The valid textual identifiers.
ValidPids ==
  {<<PID_NAMESPACE, v, t, hash_to_hex(d)>> :
     v \in Versions, t \in DOMAIN PidType, d \in Digests}

(* ------------------------------ results -------------------------------- *)
Ok(v) == [ok |-> TRUE, val |-> v]
Err(e) == [ok |-> FALSE, err |-> e]

(* ----------------------------- struct ---------------------------------- *)
\* struct.pack('>q', n): big endian two's complement
pack_q(n) ==
  LET u == n % (256 ^ IntLen)
  IN  [i \in 1..IntLen |-> (u \div (256 ^ (IntLen - i))) % 256]

RECURSIVE BigEndian(_)
BigEndian(b) ==
  IF b = <<>> THEN 0
  ELSE 256 * BigEndian(SubSeq(b, 1, Len(b) - 1)) + b[Len(b)]

\* struct.unpack('>q', b)[0]
unpack_q(b) ==
  LET u == BigEndian(b)
  IN  IF 2 * u >= 256 ^ IntLen THEN u - 256 ^ IntLen ELSE u

(* ------------------------------ codec ---------------------------------- *)
str_to_bytes(pid) ==
  LET p == parse_persistent_identifier(pid)
  IN  <<p.scheme_version, PidType[p.object_type]>> \o fromhex(p.object_id)

bytes_to_str(bytes) ==
  LET version == bytes[1]
      type == bytes[2]
      bin_digest == SubSeq(bytes, 3, Len(bytes))
  IN  IF type \in PidTypeCodes
        THEN Ok(PidToString(PersistentId(PidTypeName(type), bin_digest)))
        ELSE Err("ValueError")

(* ------------------------- bytes and slices ---------------------------- *)
\* bytes.__lt__: unsigned lexicographic order, a proper prefix is smaller
RECURSIVE BytesLess(_, _)
BytesLess(a, b) ==
  IF b = <<>> THEN FALSE
  ELSE IF a = <<>> THEN TRUE
  ELSE IF a[1] # b[1] THEN a[1] < b[1]
  ELSE BytesLess(Tail(a), Tail(b))

\* slice.indices(n): a negative bound counts from the end, then both are
\* clipped to [0, n]
SliceIndex(i, n) ==
  LET j == IF i < 0 THEN i + n ELSE i
  IN  IF j < 0 THEN 0 ELSE IF j > n THEN n ELSE j

\* mm[a:b]
GetSlice(mm, a, b) ==
  LET lo == SliceIndex(a, Len(mm))
      hi == SliceIndex(b, Len(mm))
  IN  IF lo >= hi THEN <<>> ELSE SubSeq(mm, lo + 1, hi)

\* mm[a:b] = data: IndexError unless the slice has exactly Len(data) bytes
SliceFits(mm, a, b, data) == Len(GetSlice(mm, a, b)) = Len(data)

SetSlice(mm, a, b, data) ==
  LET lo == SliceIndex(a, Len(mm))
  IN  [i \in 1..Len(mm) |->
         IF i > lo /\ i <= lo + Len(data) THEN data[i - lo] ELSE mm[i]]

(* ------------------------------ state ---------------------------------- *)
VARIABLES
  disk,    \* disk[c]: the index file of class c: [exists, data]
  maps,    \* maps[h]: the map object h (an _OnDiskMap), see NoMap
  last,    \* the last operation, its arguments and its outcome
  codec,   \* the codec's last conversion
  comp     \* the run of compress(): see Compress

vars == <<disk, maps, last, codec, comp>>

Classes == {"PidToIntMap", "IntToPidMap"}

RECORD_SIZE(cls) ==
  IF cls = "PidToIntMap" THEN PID_BIN_SIZE + INT_BIN_SIZE ELSE PID_BIN_SIZE

Handles == 1..MaxHandles

NoFile == [exists |-> FALSE, data |-> <<>>]

\* No object: cls, mode, record_size, fd, size, length and mm are the fields
\* __init__ sets; flags is the mapping's mode, cow and page its private copy;
\* released lists what has been released, in order.
NoMap ==
  [st |-> "none", cls |-> "none", mode |-> "none", record_size |-> 0,
   fd |-> "none", size |-> 0, length |-> 0, mm |-> "none", flags |-> "none",
   cow |-> FALSE, page |-> <<>>, released |-> <<>>]

None == -1   \* length=None

\* The textual identifiers the index operations are tried with: they differ
\* in the digest, in the object type and in the scheme version.
IndexPids ==
  {<<PID_NAMESPACE, 1, "content", hash_to_hex([i \in 1..DigestLen |-> 0])>>,
   <<PID_NAMESPACE, 1, "content", hash_to_hex([i \in 1..DigestLen |-> 1])>>,
   <<PID_NAMESPACE, MaxVersion, "directory",
     hash_to_hex([i \in 1..DigestLen |-> 0])>>}

\* The identifiers written over records of the reverse index.
SetPids ==
  {<<PID_NAMESPACE, 1, "content", hash_to_hex([i \in 1..DigestLen |-> 1])>>,
   <<PID_NAMESPACE, MaxVersion, "directory",
     hash_to_hex([i \in 1..DigestLen |-> 0])>>}

Ints == {0, 1}

Zeros(n) == [i \in 1..n |-> 0]

\* A truncate that extends a short file and leaves a long one as it is
truncate_only_grows(data, n) ==
  IF n <= Len(data) THEN data ELSE data \o Zeros(n - Len(data))

\* os.truncate(fd, n): cut, or extend with zero bytes
truncate(data, n) ==
  IF n <= Len(data) THEN SubSeq(data, 1, n)
  ELSE data \o Zeros(n - Len(data))

\* What the mapping of h shows: the file itself for a shared mapping and for
\* a private mapping not written yet, the private copy afterwards (the files
\* of the model fit in one page).
ViewOf(d, m, h) ==
  IF m[h].flags = "MAP_PRIVATE" /\ m[h].cow
    THEN m[h].page
    ELSE d[m[h].cls].data

View(h) == ViewOf(disk, maps, h)

IsOpen(h) == maps[h].st = "open"

Mapped(cls) == \E h \in Handles : IsOpen(h) /\ maps[h].cls = cls

Init ==
  /\ disk = [c \in Classes |-> NoFile]
  /\ maps = [h \in Handles |-> NoMap]
  /\ last = [op |-> "init"]
  /\ codec = [stage |-> "idle"]
  /\ comp = [status |-> "idle"]

(* ------------------------- building the files -------------------------- *)
\* PidToIntMap.write_record(f, pid, int) on a plain stream appending to the
\* file: two writes
PidToIntMap_write_record(data, pid, int) ==
  (data \o str_to_bytes(pid)) \o pack_q(int)

\* IntToPidMap.write_record(f, pid)
IntToPidMap_write_record(data, pid) == data \o str_to_bytes(pid)

\* The builder appends one record to a file of whole records holding fewer
\* than cap records; the build phase comes before any mapping.
AppendRecord(cls, pid, int, cap) ==
  /\ ~Mapped(cls)
  /\ Len(disk[cls].data) % RECORD_SIZE(cls) = 0
  /\ Len(disk[cls].data) + RECORD_SIZE(cls) <= cap * RECORD_SIZE(cls)
  /\ disk' = [disk EXCEPT ![cls] =
       [exists |-> TRUE,
        data |-> IF cls = "PidToIntMap"
                   THEN PidToIntMap_write_record(disk[cls].data, pid, int)
                   ELSE IntToPidMap_write_record(disk[cls].data, pid)]]
  /\ last' = [op |-> "write_record", cls |-> cls]
  /\ UNCHANGED <<maps, codec, comp>>

WriteRecord(cls, pid, int) == AppendRecord(cls, pid, int, MaxLen)

\* The environment leaves a file cut short (an interrupted build or copy).
CutFile(cls, n) ==
  /\ disk[cls].exists
  /\ ~Mapped(cls)
  /\ n < Len(disk[cls].data)
  /\ disk' = [disk EXCEPT ![cls].data = SubSeq(@, 1, n)]
  /\ last' = [op |-> "cut", cls |-> cls]
  /\ UNCHANGED <<maps, codec, comp>>

(* --------------------------- _OnDiskMap -------------------------------- *)
Modes == {"rb", "wb", "rb+"}

\* The object a failed __init__ leaves behind: the descriptor stays open.
FailedMap(cls, mode, size, length) ==
  [NoMap EXCEPT !.st = "failed", !.cls = cls, !.fd = "open"]

OpenedMap(cls, mode, size, length) ==
  [NoMap EXCEPT !.st = "open", !.cls = cls, !.mode = mode,
                !.record_size = RECORD_SIZE(cls), !.fd = "open",
                !.size = size, !.length = length, !.mm = "open",
                !.flags = IF mode \in {"wb", "rb+"}
                            THEN "MAP_SHARED" ELSE "MAP_PRIVATE"]

\* The length by floor division, the remainder forgotten
divmod_no_remainder(size, record_size) == <<size \div record_size, 0>>

\* divmod(self.size, record_size)
divmod(size, record_size) == <<size \div record_size, size % record_size>>

\* _OnDiskMap.__init__(record_size, fname, mode, length), through the
\* constructor of class cls.  A map is created only while no other map of
\* the file is alive (one writer, and no reader of a file being created).
OnDiskMapInit(h, cls, mode, length) ==
  LET record_size == RECORD_SIZE(cls)
      new_map == (mode = "wb")
      f == disk[cls]
      \* os.open: O_CREAT creates a missing file, empty
      created == IF new_map /\ ~f.exists
                   THEN [exists |-> TRUE, data |-> <<>>] ELSE f
      \* os.truncate(self.fd, length * self.record_size)
      sized == IF new_map /\ length # None
                 THEN [created EXCEPT !.data = truncate(@, length * record_size)]
                 ELSE created
      size == Len(sized.data)
      len == divmod(size, record_size)[1]
      remainder == divmod(size, record_size)[2]
      report(res) == [op |-> "open", h |-> h, cls |-> cls, mode |-> mode,
                      length |-> length, res |-> res]
  IN
  /\ maps[h].st \in {"none", "closed"}
  /\ new_map => ~Mapped(cls)
  /\ IF mode \notin Modes
       THEN /\ last' = report(Err("ValueError: invalid file open mode"))
            /\ UNCHANGED <<disk, maps>>
     ELSE IF ~new_map /\ ~f.exists
       THEN /\ last' = report(Err("FileNotFoundError"))
            /\ UNCHANGED <<disk, maps>>
     ELSE IF new_map /\ length = None
       THEN /\ last' = report(Err("ValueError: missing length"))
            /\ disk' = [disk EXCEPT ![cls] = created]
            /\ maps' = [maps EXCEPT ![h] = FailedMap(cls, mode, 0, 0)]
     ELSE IF remainder # 0
       THEN /\ last' = report(Err("ValueError: not a multiple of the record size"))
            /\ disk' = [disk EXCEPT ![cls] = sized]
            /\ maps' = [maps EXCEPT ![h] = FailedMap(cls, mode, size, len)]
     ELSE IF size = 0
       THEN \* mmap.mmap(fd, 0) of an empty file
            /\ last' = report(Err("ValueError: cannot mmap an empty file"))
            /\ disk' = [disk EXCEPT ![cls] = sized]
            /\ maps' = [maps EXCEPT ![h] = FailedMap(cls, mode, size, len)]
     ELSE /\ last' = report(Ok(len))
          /\ disk' = [disk EXCEPT ![cls] = sized]
          /\ maps' = [maps EXCEPT ![h] = OpenedMap(cls, mode, size, len)]
  /\ UNCHANGED <<codec, comp>>

\* _OnDiskMap.close(); the caller closes a map once.
Close(h) ==
  /\ IsOpen(h)
  /\ maps' = [maps EXCEPT ![h] =
       [NoMap EXCEPT !.st = "closed",
                     !.cls = maps[h].cls,
                     !.mm = "closed",
                     !.fd = "closed",
                     !.released = (IF maps[h].mm # "closed"
                                     THEN maps[h].released \o <<"mm">>
                                     ELSE maps[h].released) \o <<"fd">>]]
  /\ last' = [op |-> "close", h |-> h]
  /\ UNCHANGED <<disk, codec, comp>>

\* _OnDiskMap.__len__
OnDiskMapLen(h) == maps[h].length

\* _OnDiskMap.__delitem__(pos): del m[pos]
Delete(h, pos) ==
  /\ IsOpen(h)
  /\ last' = [op |-> "delete", h |-> h, pos |-> pos,
              res |-> Err("NotImplementedError")]
  /\ UNCHANGED <<disk, maps, codec, comp>>

\* A write through the mapping of h leaves it showing bytes mm: a shared
\* mapping writes the file, a private one its own copy of the page.
Commit(h, mm) ==
  IF maps[h].flags = "MAP_SHARED"
    THEN /\ disk' = [disk EXCEPT ![maps[h].cls].data = mm]
         /\ UNCHANGED maps
    ELSE /\ maps' = [maps EXCEPT ![h].cow = TRUE, ![h].page = mm]
         /\ UNCHANGED disk

(* --------------------------- PidToIntMap ------------------------------- *)
\* _get_bin_record taking the integer's size for the key's
PidToIntMap_get_bin_record_sizes(mm, pos) ==
  LET rec_pos == pos * RECORD_SIZE("PidToIntMap")
      int_pos == rec_pos + INT_BIN_SIZE
  IN  <<GetSlice(mm, rec_pos, int_pos),
        GetSlice(mm, int_pos, int_pos + INT_BIN_SIZE)>>

\* PidToIntMap._get_bin_record(pos): the pair (pid bytes, int bytes)
PidToIntMap_get_bin_record(mm, pos) ==
  LET rec_pos == pos * RECORD_SIZE("PidToIntMap")
      int_pos == rec_pos + PID_BIN_SIZE
  IN  <<GetSlice(mm, rec_pos, int_pos),
        GetSlice(mm, int_pos, int_pos + INT_BIN_SIZE)>>

\* _find reporting a file whose keys do not ascend
find_sorted_only(mm, length, pid_str) ==
  IF \E i \in 0..(length - 2) :
       BytesLess(PidToIntMap_get_bin_record(mm, i + 1)[1],
                 PidToIntMap_get_bin_record(mm, i)[1])
    THEN [res |-> Err("ValueError: unsorted"), reads |-> <<>>, spans |-> <<>>]
    ELSE [res |-> Err("KeyError"), reads |-> <<>>, spans |-> <<>>]

\* The loop taking a record whose key is not smaller than the target for
\* the target's
RECURSIVE find_loop_no_upper_test(_, _, _, _, _, _)
find_loop_no_upper_test(mm, target, min, max, reads, spans) ==
  IF min <= max
    THEN LET mid == (min + max) \div 2
             rec == PidToIntMap_get_bin_record(mm, mid)
             seen == Append(spans, <<min, max>>)
         IN  IF BytesLess(rec[1], target)
               THEN find_loop_no_upper_test(mm, target, mid + 1, max,
                                            Append(reads, mid), seen)
               ELSE [res |-> Ok(<<unpack_q(rec[2]), mid>>),
                     reads |-> Append(reads, mid), spans |-> seen]
    ELSE [res |-> Err("KeyError"), reads |-> reads,
          spans |-> Append(spans, <<min, max>>)]

\* The loop probing the first record of the interval instead of the middle
RECURSIVE find_loop_linear(_, _, _, _, _, _)
find_loop_linear(mm, target, min, max, reads, spans) ==
  IF min <= max
    THEN LET mid == min
             rec == PidToIntMap_get_bin_record(mm, mid)
             seen == Append(spans, <<min, max>>)
         IN  IF BytesLess(rec[1], target)
               THEN find_loop_linear(mm, target, mid + 1, max,
                                     Append(reads, mid), seen)
             ELSE IF BytesLess(target, rec[1])
               THEN find_loop_linear(mm, target, min, mid - 1,
                                     Append(reads, mid), seen)
             ELSE [res |-> Ok(<<unpack_q(rec[2]), mid>>),
                   reads |-> Append(reads, mid), spans |-> seen]
    ELSE [res |-> Err("KeyError"), reads |-> reads,
          spans |-> Append(spans, <<min, max>>)]

\* The loop of PidToIntMap._find: the outcome, the positions it read and
\* the bounds <<min, max>> each test of the loop condition saw.
RECURSIVE find_loop(_, _, _, _, _, _)
find_loop(mm, target, min, max, reads, spans) ==
  IF min <= max
    THEN LET mid == (min + max) \div 2
             rec == PidToIntMap_get_bin_record(mm, mid)
             pid == rec[1]
             int == rec[2]
             seen == Append(spans, <<min, max>>)
         IN  IF BytesLess(pid, target)
               THEN find_loop(mm, target, mid + 1, max, Append(reads, mid), seen)
             ELSE IF BytesLess(target, pid)
               THEN find_loop(mm, target, min, mid - 1, Append(reads, mid), seen)
             ELSE [res |-> Ok(<<unpack_q(int), mid>>),
                   reads |-> Append(reads, mid), spans |-> seen]
    ELSE [res |-> Err("KeyError"), reads |-> reads,
          spans |-> Append(spans, <<min, max>>)]

\* PidToIntMap._find(pid_str) on a map of that length showing bytes mm
find(mm, length, pid_str) ==
  find_loop(mm, str_to_bytes(pid_str), 0, length - 1, <<>>, <<>>)

\* PidToIntMap.__getitem__(pid_str)
Lookup(h, pid_str) ==
  LET f == find(View(h), maps[h].length, pid_str)
  IN  /\ IsOpen(h)
      /\ maps[h].cls = "PidToIntMap"
      /\ last' = [op |-> "lookup", h |-> h, pid |-> pid_str,
                  res |-> IF f.res.ok THEN Ok(f.res.val[1]) ELSE f.res,
                  reads |-> f.reads, spans |-> f.spans]
      /\ UNCHANGED <<disk, maps, codec, comp>>

\* __setitem__ packing the value _find returned instead of the new one
setitem_old_value(mm, length, pid_str, int) ==
  LET f == find(mm, length, pid_str)
      pos == f.res.val[2]
      rec_pos == pos * RECORD_SIZE("PidToIntMap")
      int_pos == rec_pos + PID_BIN_SIZE
  IN  IF ~f.res.ok THEN [res |-> f.res, wrote |-> FALSE, mm |-> mm]
      ELSE [res |-> Ok(pos), wrote |-> TRUE,
            mm |-> SetSlice(SetSlice(mm, rec_pos, int_pos, str_to_bytes(pid_str)),
                            int_pos, int_pos + INT_BIN_SIZE,
                            pack_q(f.res.val[1]))]

\* __setitem__ writing the first record when the key is missing
setitem_upsert(mm, length, pid_str, int) ==
  LET f == find(mm, length, pid_str)
      pos == IF f.res.ok THEN f.res.val[2] ELSE 0
      rec_pos == pos * RECORD_SIZE("PidToIntMap")
      int_pos == rec_pos + PID_BIN_SIZE
  IN  [res |-> Ok(pos), wrote |-> TRUE,
       mm |-> SetSlice(SetSlice(mm, rec_pos, int_pos, str_to_bytes(pid_str)),
                       int_pos, int_pos + INT_BIN_SIZE, pack_q(int))]

\* __setitem__ adding a record at the end when the key is missing
setitem_insert(mm, length, pid_str, int) ==
  LET f == find(mm, length, pid_str)
      pos == f.res.val[2]
      rec_pos == pos * RECORD_SIZE("PidToIntMap")
      int_pos == rec_pos + PID_BIN_SIZE
  IN  IF ~f.res.ok
        THEN [res |-> Ok(length), wrote |-> TRUE,
              mm |-> (mm \o str_to_bytes(pid_str)) \o pack_q(int)]
        ELSE [res |-> Ok(pos), wrote |-> TRUE,
              mm |-> SetSlice(SetSlice(mm, rec_pos, int_pos, str_to_bytes(pid_str)),
                              int_pos, int_pos + INT_BIN_SIZE, pack_q(int))]

\* PidToIntMap.__setitem__(pid_str, int) on a map of that length showing
\* bytes mm: the outcome and the bytes the mapping shows afterwards
setitem(mm, length, pid_str, int) ==
  LET f == find(mm, length, pid_str)
      pos == f.res.val[2]
      rec_pos == pos * RECORD_SIZE("PidToIntMap")
      int_pos == rec_pos + PID_BIN_SIZE
      key == str_to_bytes(pid_str)
      val == pack_q(int)
      mm1 == SetSlice(mm, rec_pos, int_pos, key)
      mm2 == SetSlice(mm1, int_pos, int_pos + INT_BIN_SIZE, val)
  IN  IF ~f.res.ok THEN [res |-> f.res, wrote |-> FALSE, mm |-> mm]
      ELSE IF ~SliceFits(mm, rec_pos, int_pos, key)
        THEN [res |-> Err("IndexError"), wrote |-> FALSE, mm |-> mm]
      ELSE IF ~SliceFits(mm1, int_pos, int_pos + INT_BIN_SIZE, val)
        THEN [res |-> Err("IndexError"), wrote |-> TRUE, mm |-> mm1]
      ELSE [res |-> Ok(pos), wrote |-> TRUE, mm |-> mm2]

Update(h, pid_str, int) ==
  LET s == setitem(View(h), maps[h].length, pid_str, int)
  IN  /\ IsOpen(h)
      /\ maps[h].cls = "PidToIntMap"
      /\ last' = [op |-> "update", h |-> h, pid |-> pid_str, int |-> int,
                  res |-> s.res]
      /\ IF s.wrote THEN Commit(h, s.mm) ELSE UNCHANGED <<disk, maps>>
      /\ UNCHANGED <<codec, comp>>

\* PidToIntMap._get_record(pos): the pair (pid string, int)
PidToIntMap_get_record(mm, pos) ==
  LET rec == PidToIntMap_get_bin_record(mm, pos)
      pid == bytes_to_str(rec[1])
  IN  IF pid.ok THEN Ok(<<pid.val, unpack_q(rec[2])>>) ELSE pid

\* The generator of PidToIntMap.__iter__ run from position pos to its end:
\* the items it yields and the exception that ends it, if any.
RECURSIVE PidToIntMap_iter(_, _, _, _)
PidToIntMap_iter(mm, length, pos, items) ==
  IF pos >= length THEN [items |-> items, raised |-> "none"]
  ELSE LET rec == PidToIntMap_get_record(mm, pos)
       IN  IF rec.ok
             THEN PidToIntMap_iter(mm, length, pos + 1, Append(items, rec.val))
             ELSE [items |-> items, raised |-> rec.err]

\* list(iter(m)) on a forward map
Iterate(h) ==
  LET it == PidToIntMap_iter(View(h), maps[h].length, 0, <<>>)
  IN  /\ IsOpen(h)
      /\ maps[h].cls = "PidToIntMap"
      /\ last' = [op |-> "iterate", h |-> h,
                  items |-> it.items, raised |-> it.raised]
      /\ UNCHANGED <<disk, maps, codec, comp>>

(* --------------------------- IntToPidMap ------------------------------- *)
\* IntToPidMap._get_bin_record(pos)
IntToPidMap_get_bin_record(mm, pos) ==
  LET rec_pos == pos * RECORD_SIZE("IntToPidMap")
  IN  GetSlice(mm, rec_pos, rec_pos + RECORD_SIZE("IntToPidMap"))

\* __getitem__ counting a negative position from the last record
getitem_off_by_one(mm, len, orig_pos) ==
  LET pos == IF orig_pos < 0 THEN len - 1 + orig_pos ELSE orig_pos
  IN  IF ~(0 <= pos /\ pos < len)
        THEN [res |-> Err("IndexError"), reads |-> <<>>]
        ELSE [res |-> bytes_to_str(IntToPidMap_get_bin_record(mm, pos)),
              reads |-> <<pos>>]

\* IntToPidMap.__getitem__(pos) on a map of length len showing bytes mm: the
\* outcome and the positions it read
getitem(mm, len, orig_pos) ==
  LET pos == IF orig_pos < 0 THEN len + orig_pos ELSE orig_pos
  IN  IF ~(0 <= pos /\ pos < len)
        THEN [res |-> Err("IndexError"), reads |-> <<>>]
        ELSE [res |-> bytes_to_str(IntToPidMap_get_bin_record(mm, pos)),
              reads |-> <<pos>>]

Get(h, pos) ==
  LET g == getitem(View(h), OnDiskMapLen(h), pos)
  IN  /\ IsOpen(h)
      /\ maps[h].cls = "IntToPidMap"
      /\ last' = [op |-> "get", h |-> h, pos |-> pos,
                  res |-> g.res, reads |-> g.reads]
      /\ UNCHANGED <<disk, maps, codec, comp>>

\* IntToPidMap.__setitem__(pos, pid) on a map showing bytes mm: the outcome
\* and the bytes the mapping shows afterwards
rev_setitem(mm, pos, pid) ==
  LET rec_pos == pos * RECORD_SIZE("IntToPidMap")
      data == str_to_bytes(pid)
  IN  IF ~SliceFits(mm, rec_pos, rec_pos + RECORD_SIZE("IntToPidMap"), data)
        THEN [res |-> Err("IndexError"), wrote |-> FALSE, mm |-> mm]
        ELSE [res |-> Ok(pos), wrote |-> TRUE,
              mm |-> SetSlice(mm, rec_pos,
                              rec_pos + RECORD_SIZE("IntToPidMap"), data)]

Set(h, pos, pid) ==
  LET s == rev_setitem(View(h), pos, pid)
  IN  /\ IsOpen(h)
      /\ maps[h].cls = "IntToPidMap"
      /\ last' = [op |-> "set", h |-> h, pos |-> pos, pid |-> pid,
                  res |-> s.res]
      /\ IF s.wrote THEN Commit(h, s.mm) ELSE UNCHANGED <<disk, maps>>
      /\ UNCHANGED <<codec, comp>>

\* The generator of IntToPidMap.__iter__ run from position pos to its end
RECURSIVE IntToPidMap_iter(_, _, _, _)
IntToPidMap_iter(mm, length, pos, items) ==
  IF pos >= length THEN [items |-> items, raised |-> "none"]
  ELSE LET g == getitem(mm, length, pos)
       IN  IF g.res.ok
             THEN IntToPidMap_iter(mm, length, pos + 1,
                                   Append(items, <<pos, g.res.val>>))
             ELSE [items |-> items, raised |-> g.res.err]

\* list(iter(m)) on a reverse map
RevIterate(h) ==
  LET it == IntToPidMap_iter(View(h), maps[h].length, 0, <<>>)
  IN  /\ IsOpen(h)
      /\ maps[h].cls = "IntToPidMap"
      /\ last' = [op |-> "iterate", h |-> h,
                  items |-> it.items, raised |-> it.raised]
      /\ UNCHANGED <<disk, maps, codec, comp>>

(* --------------------------- specifications ---------------------------- *)
Lengths == {None} \cup (0..MaxLen)
OpenModes == Modes \cup {"ab"}
Positions == (0 - (MaxLen + 1))..MaxLen

\* The ways the index specifications open a map: an existing file for
\* reading or updating, or a file created with a length.
IndexOpens ==
  {<<"rb", None>>, <<"rb+", None>>} \cup {<<"wb", n>> : n \in 0..MaxLen}

\* The forward index, one map object at a time.
NextFwd ==
  \/ \E pid \in IndexPids, int \in Ints : WriteRecord("PidToIntMap", pid, int)
  \/ \E o \in IndexOpens : OnDiskMapInit(1, "PidToIntMap", o[1], o[2])
  \/ Close(1)
  \/ \E pid \in IndexPids : Lookup(1, pid)
  \/ \E pid \in IndexPids, int \in Ints : Update(1, pid, int)
  \/ Iterate(1)
  \/ \E pid \in SetPids : Delete(1, pid)

SpecFwd == Init /\ [][NextFwd]_vars

\* The reverse index, one map object at a time.
NextRev ==
  \/ \E pid \in IndexPids : WriteRecord("IntToPidMap", pid, 0)
  \/ \E o \in IndexOpens : OnDiskMapInit(1, "IntToPidMap", o[1], o[2])
  \/ Close(1)
  \/ \E pos \in Positions : Get(1, pos)
  \/ \E pos \in Positions, pid \in SetPids : Set(1, pos, pid)
  \/ RevIterate(1)
  \/ \E pos \in {0, MaxLen} : Delete(1, pos)

SpecRev == Init /\ [][NextRev]_vars

\* Opening and closing maps of both classes; the files hold what creation
\* and cutting leave in them.
NextOpen ==
  \/ \E cls \in Classes :
       \E n \in 0..(MaxLen * RECORD_SIZE(cls)) : CutFile(cls, n)
  \/ \E cls \in Classes, mode \in OpenModes, length \in Lengths :
       OnDiskMapInit(1, cls, mode, length)
  \/ Close(1)

SpecOpen == Init /\ [][NextOpen]_vars

(* ------------------------------ the codec ------------------------------ *)
\* The records a file may hold: any version and type byte around the valid
\* ones, any digest.
RawRecords ==
  {<<v, t>> \o d : v \in 0..MaxVersion, t \in 0..(Cardinality(PidTypeCodes) + 1),
                   d \in Digests}

Encode(x) ==
  /\ codec' = [stage |-> "encoded", x |-> x, bytes |-> str_to_bytes(x)]
  /\ UNCHANGED <<disk, maps, last, comp>>

Decode ==
  /\ codec.stage = "encoded"
  /\ codec' = [stage |-> "decoded", x |-> codec.x, bytes |-> codec.bytes,
               out |-> bytes_to_str(codec.bytes)]
  /\ UNCHANGED <<disk, maps, last, comp>>

DecodeRecord(b) ==
  /\ codec' = [stage |-> "decoded_record", bytes |-> b, out |-> bytes_to_str(b)]
  /\ UNCHANGED <<disk, maps, last, comp>>

NextCodec ==
  \/ \E x \in ValidPids : Encode(x)
  \/ Decode
  \/ \E b \in RawRecords : DecodeRecord(b)

SpecCodec == Init /\ [][NextCodec]_vars

(* ------------------------------ properties ----------------------------- *)
FwdSize == RECORD_SIZE("PidToIntMap")
RevSize == RECORD_SIZE("IntToPidMap")

\* The key and the value bytes of record i (from 0) of a forward index
KeyAt(mm, i) == SubSeq(mm, i * FwdSize + 1, i * FwdSize + PID_BIN_SIZE)
ValAt(mm, i) == SubSeq(mm, i * FwdSize + PID_BIN_SIZE + 1, (i + 1) * FwdSize)

\* The positions of the records holding key bytes t
Hits(mm, len, t) == {i \in 0..(len - 1) : KeyAt(mm, i) = t}

\* The keys are strictly ascending, hence pairwise distinct
StrictlyAscending(mm, len) ==
  \A i, j \in 0..(len - 1) : i < j => BytesLess(KeyAt(mm, i), KeyAt(mm, j))

\* C1: on a forward index with strictly ascending keys, lookup(k) returns the
\* node id of the record holding k when there is one, and fails with KeyError
\* (NotFound) when there is none.
C1_LookupCorrect ==
  last.op = "lookup" =>
    LET mm == View(last.h)
        len == maps[last.h].length
        hits == Hits(mm, len, str_to_bytes(last.pid))
    IN  StrictlyAscending(mm, len) =>
          IF hits # {}
            THEN /\ last.res.ok
                 /\ \A i \in hits : pack_q(last.res.val) = ValAt(mm, i)
            ELSE /\ ~last.res.ok
                 /\ last.res.err = "KeyError"

\* A lookup on a sorted index of three records that finds its key at the
\* second probe, with node id 1.
C1_Witness ==
  /\ last.op = "lookup"
  /\ maps[last.h].length = 3
  /\ StrictlyAscending(View(last.h), 3)
  /\ last.res.ok
  /\ last.res.val = 1
  /\ Len(last.reads) = 2

\* A lookup on a sorted index of two records of a key lying between them.
C1_WitnessMiss ==
  /\ last.op = "lookup"
  /\ maps[last.h].length = 2
  /\ StrictlyAscending(View(last.h), 2)
  /\ ~last.res.ok
  /\ BytesLess(KeyAt(View(last.h), 0), str_to_bytes(last.pid))
  /\ BytesLess(str_to_bytes(last.pid), KeyAt(View(last.h), 1))

\* The bytes of record i (from 0) of a forward index
RecAt(mm, i) == SubSeq(mm, i * FwdSize + 1, (i + 1) * FwdSize)

\* C2: on a sorted forward index opened writable ('wb' or 'rb+'), update(k, v)
\* of a key the file holds succeeds and changes only the value bytes of k's
\* record: the key bytes stay where they were, every other record is byte
\* for byte what it was, and lookup(k) then returns v.
C2_UpdateFrame ==
  [][ LET h == last'.h
          before == View(h)
          after == ViewOf(disk', maps', h)
          len == maps[h].length
          hits == Hits(before, len, str_to_bytes(last'.pid))
      IN  ( /\ last'.op = "update"
            /\ IsOpen(h)
            /\ maps[h].mode \in {"wb", "rb+"}
            /\ StrictlyAscending(before, len)
            /\ hits # {} )
          => /\ last'.res.ok
             /\ maps' = maps
             /\ Len(after) = Len(before)
             /\ \A i \in hits : /\ KeyAt(after, i) = KeyAt(before, i)
                                /\ ValAt(after, i) = pack_q(last'.int)
             /\ \A i \in (0..(len - 1)) \ hits : RecAt(after, i) = RecAt(before, i)
             /\ find(after, len, last'.pid).res.ok
             /\ find(after, len, last'.pid).res.val[1] = last'.int
    ]_vars

\* An update to 1 through a writable map of three sorted records, one of
\* which holds 0.
C2_Witness ==
  /\ last.op = "update"
  /\ last.res.ok
  /\ last.int = 1
  /\ maps[last.h].mode = "rb+"
  /\ maps[last.h].length = 3
  /\ StrictlyAscending(View(last.h), 3)
  /\ \E i \in 0..2 : ValAt(View(last.h), i) = pack_q(0)

\* C3: update(k, v) of a key the forward index does not hold fails with
\* KeyError (NotFound), as lookup(k) does, and leaves the file, the mapping
\* and the length as they were.
C3_UpdateMissing ==
  [][ LET h == last'.h
          before == View(h)
          len == maps[h].length
      IN  ( /\ last'.op = "update"
            /\ IsOpen(h)
            /\ Hits(before, len, str_to_bytes(last'.pid)) = {} )
          => /\ ~last'.res.ok
             /\ last'.res.err = "KeyError"
             /\ last'.res = find(before, len, last'.pid).res
             /\ disk' = disk
             /\ maps' = maps
    ]_vars

\* A failed update on an index of two records.
C3_Witness ==
  /\ last.op = "update"
  /\ ~last.res.ok
  /\ last.res.err = "KeyError"
  /\ maps[last.h].length = 2
  /\ Hits(View(last.h), 2, str_to_bytes(last.pid)) = {}

\* The bytes of record i (from 0) of a reverse index
RevRecAt(mm, i) == SubSeq(mm, i * RevSize + 1, (i + 1) * RevSize)

\* The record's type byte has a name in the code table
Decodable(rec) == rec[2] \in PidTypeCodes

\* C4: on a reverse index of length L, get(-j) for 1 <= j <= L returns what
\* get(L - j) returns, the decoding of record L - j when it is decodable, and
\* get(-j) for j > L fails with IndexError (OutOfRange).
C4_NegativeIndex ==
  (last.op = "get" /\ last.pos < 0) =>
    LET mm == View(last.h)
        L == OnDiskMapLen(last.h)
        j == 0 - last.pos
    IN  IF j <= L
          THEN Decodable(RevRecAt(mm, L - j)) =>
                 /\ last.res.ok
                 /\ getitem(mm, L, L - j).res.ok
                 /\ last.res.val = getitem(mm, L, L - j).res.val
                 /\ last.res.val = bytes_to_str(RevRecAt(mm, L - j)).val
          ELSE /\ ~last.res.ok
               /\ last.res.err = "IndexError"

\* get(-L) on a map of three records whose first and last differ in their
\* digest or type.
C4_Witness ==
  /\ last.op = "get"
  /\ OnDiskMapLen(last.h) = 3
  /\ last.pos = 0 - 3
  /\ last.res.ok
  /\ Decodable(RevRecAt(View(last.h), 2))
  /\ bytes_to_str(RevRecAt(View(last.h), 2)).val # last.res.val

\* C5: on a reverse index of length L, get(i) for 0 <= i < L returns the
\* identifier stored in record i (the one whose encoding the record is, as
\* appended at build time), and get(i) for i >= L or i < -L fails with
\* IndexError (OutOfRange) without reading any record.
C5_GetReturnsStored ==
  last.op = "get" =>
    LET mm == View(last.h)
        L == OnDiskMapLen(last.h)
        i == last.pos
    IN  /\ (0 <= i /\ i < L /\ Decodable(RevRecAt(mm, i))) =>
             /\ last.res.ok
             /\ str_to_bytes(last.res.val) = RevRecAt(mm, i)
        /\ (i >= L \/ i < 0 - L) =>
             /\ ~last.res.ok
             /\ last.res.err = "IndexError"
             /\ last.reads = <<>>

\* What holds of get(i) in the code: it decodes record i, records of the
\* default scheme version are returned as stored, and a position outside
\* [-L, L) fails with IndexError before any record is read.
GetAddressing ==
  last.op = "get" =>
    LET mm == View(last.h)
        L == OnDiskMapLen(last.h)
        i == last.pos
    IN  /\ (0 <= i /\ i < L) =>
             /\ last.res = bytes_to_str(RevRecAt(mm, i))
             /\ last.reads = <<i>>
             /\ (Decodable(RevRecAt(mm, i)) /\ RevRecAt(mm, i)[1] = PID_VERSION)
                  => str_to_bytes(last.res.val) = RevRecAt(mm, i)
        /\ (i >= L \/ i < 0 - L) =>
             /\ ~last.res.ok
             /\ last.res.err = "IndexError"
             /\ last.reads = <<>>

\* C6: decode(encode(x)) = x for every valid textual identifier x.
C6_RoundTrip ==
  codec.stage = "decoded" => (codec.out.ok /\ codec.out.val = codec.x)

\* What holds of the codec: the round trip keeps the type and the digest,
\* and keeps the identifier when its scheme version is the default one;
\* the decoded version is the default whatever the record's first byte.
RoundTripDefaultVersion ==
  /\ codec.stage = "decoded" =>
       /\ codec.out.ok
       /\ codec.out.val[3] = codec.x[3]
       /\ codec.out.val[4] = codec.x[4]
       /\ codec.out.val[2] = PID_VERSION
       /\ codec.x[2] = PID_VERSION => codec.out.val = codec.x
  /\ (codec.stage = "decoded_record" /\ codec.out.ok) =>
       codec.out.val[2] = PID_VERSION

\* C7: opening ('rb' or 'rb+') an existing file whose size is not a multiple
\* of the record size fails with the ValueError of the size check
\* (CorruptFile), gives no map and leaves the file as it was.
C7_CorruptFile ==
  [][ LET h == last'.h
          cls == last'.cls
      IN  ( /\ last'.op = "open"
            /\ last'.mode \in {"rb", "rb+"}
            /\ maps[h].st \in {"none", "closed"}
            /\ disk[cls].exists
            /\ Len(disk[cls].data) % RECORD_SIZE(cls) # 0 )
          => /\ ~last'.res.ok
             /\ last'.res.err = "ValueError: not a multiple of the record size"
             /\ maps'[h].st = "failed"
             /\ maps'[h].mm = "none"
             /\ disk' = disk
    ]_vars

\* A reverse index file of one record and a half refused in 'rb+' mode.
C7_Witness ==
  /\ last.op = "open"
  /\ last.cls = "IntToPidMap"
  /\ last.mode = "rb+"
  /\ ~last.res.ok
  /\ last.res.err = "ValueError: not a multiple of the record size"
  /\ Len(disk["IntToPidMap"].data) > RevSize
  /\ Len(disk["IntToPidMap"].data) < 2 * RevSize

C9_ReadOnlyNoWrite ==
  [][ LET h == last'.h
      IN  (last'.op = "update" /\ IsOpen(h) /\ maps[h].mode = "rb")
          => /\ ~last'.res.ok
             /\ ViewOf(disk', maps', h) = View(h)
             /\ disk' = disk
    ]_vars

\* What holds of a write through an 'rb' map: the file is unchanged.
ReadOnlyFileUnchanged ==
  [][ (last'.op \in {"update", "set"} /\ IsOpen(last'.h)
       /\ maps[last'.h].mode = "rb") => disk' = disk ]_vars

\* C10: no descriptor or mapping is leaked: when open fails the descriptor
\* is not left open, and close releases the mapping, then the descriptor,
\* each once.
C10_NoLeak ==
  /\ (last.op = "open" /\ ~last.res.ok) => maps[last.h].fd # "open"
  /\ last.op = "close" =>
       /\ maps[last.h].released = <<"mm", "fd">>
       /\ maps[last.h].mm = "closed"
       /\ maps[last.h].fd = "closed"

\* What holds of close: the mapping, then the descriptor, each once.
CloseReleasesBoth ==
  last.op = "close" =>
    /\ maps[last.h].released = <<"mm", "fd">>
    /\ maps[last.h].mm = "closed"
    /\ maps[last.h].fd = "closed"

(* ------------------- the two indices of one graph --------------------- *)
\* The forward file of the nodes <<pid, id>>: one write_record per node, in
\* ascending order of the keys' bytes.
RECURSIVE write_sorted(_, _)
write_sorted(data, nodes) ==
  IF nodes = {} THEN data
  ELSE LET n == CHOOSE n \in nodes :
                  \A m \in nodes \ {n} :
                    BytesLess(str_to_bytes(n[1]), str_to_bytes(m[1]))
       IN  write_sorted(PidToIntMap_write_record(data, n[1], n[2]),
                        nodes \ {n})

\* The reverse file of the node sequence: one write_record per node, in
\* node order.
RECURSIVE write_in_order(_, _)
write_in_order(data, seq) ==
  IF seq = <<>> THEN data
  ELSE write_in_order(IntToPidMap_write_record(data, Head(seq)), Tail(seq))

\* The sequences of pairwise distinct identifiers a graph's nodes may be
NodeSeqs ==
  {q \in UNION {[1..n -> IndexPids] : n \in 1..MaxLen} :
     \A i, j \in DOMAIN q : i # j => q[i] # q[j]}

\* The builder writes both files from one node sequence: node i is seq[i+1].
BuildPair(seq) ==
  /\ ~Mapped("PidToIntMap")
  /\ ~Mapped("IntToPidMap")
  /\ disk' = [disk EXCEPT
       !["IntToPidMap"] = [exists |-> TRUE, data |-> write_in_order(<<>>, seq)],
       !["PidToIntMap"] =
         [exists |-> TRUE,
          data |-> write_sorted(<<>>, {<<seq[i], i - 1>> : i \in DOMAIN seq})]]
  /\ last' = [op |-> "build"]
  /\ UNCHANGED <<maps, codec, comp>>

\* reverse[forward[pid_str]], forward being map hf and reverse map hr
LookupThenGet(hf, hr, pid_str) ==
  LET f == find(View(hf), maps[hf].length, pid_str)
      g == getitem(View(hr), OnDiskMapLen(hr), f.res.val[1])
  IN  /\ IsOpen(hf) /\ maps[hf].cls = "PidToIntMap"
      /\ IsOpen(hr) /\ maps[hr].cls = "IntToPidMap"
      /\ last' = [op |-> "lookup_get", pid |-> pid_str,
                  res |-> IF f.res.ok THEN g.res ELSE f.res]
      /\ UNCHANGED <<disk, maps, codec, comp>>

\* forward[reverse[pos]]
GetThenLookup(hf, hr, pos) ==
  LET g == getitem(View(hr), OnDiskMapLen(hr), pos)
      f == find(View(hf), maps[hf].length, g.res.val)
  IN  /\ IsOpen(hf) /\ maps[hf].cls = "PidToIntMap"
      /\ IsOpen(hr) /\ maps[hr].cls = "IntToPidMap"
      /\ last' = [op |-> "get_lookup", pos |-> pos,
                  res |-> IF ~g.res.ok THEN g.res
                          ELSE IF f.res.ok THEN Ok(f.res.val[1]) ELSE f.res]
      /\ UNCHANGED <<disk, maps, codec, comp>>

\* Both indices of one graph, read through map 1 (forward) and map 2
\* (reverse).
NextPair ==
  \/ \E seq \in NodeSeqs : BuildPair(seq)
  \/ OnDiskMapInit(1, "PidToIntMap", "rb", None)
  \/ OnDiskMapInit(2, "IntToPidMap", "rb", None)
  \/ \E h \in {1, 2} : Close(h)
  \/ \E pid \in IndexPids : LookupThenGet(1, 2, pid)
  \/ \E pos \in 0..(MaxLen - 1) : GetThenLookup(1, 2, pos)

SpecPair == Init /\ [][NextPair]_vars

\* The two files hold the same N nodes: the forward keys ascend strictly and
\* reverse record i is the key of the forward record whose value is i.
SameNodes(fwd, rev, N) ==
  /\ Len(fwd) = N * FwdSize
  /\ Len(rev) = N * RevSize
  /\ StrictlyAscending(fwd, N)
  /\ \A i \in 0..(N - 1) :
       \E j \in 0..(N - 1) : /\ KeyAt(fwd, j) = RevRecAt(rev, i)
                             /\ ValAt(fwd, j) = pack_q(i)

\* C11: when the forward and the reverse index hold the same node sequence,
\* reverse.get(forward.lookup(p)) = p for every stored identifier p and
\* forward.lookup(reverse.get(i)) = i for every node id i in [0, N).
C11_MutualInverses ==
  LET N == OnDiskMapLen(2)
      fwd == View(1)
      rev == View(2)
  IN  /\ ( /\ last.op = "lookup_get"
           /\ SameNodes(fwd, rev, N)
           /\ Hits(fwd, N, str_to_bytes(last.pid)) # {} )
          => last.res = Ok(last.pid)
      /\ ( /\ last.op = "get_lookup"
           /\ SameNodes(fwd, rev, N)
           /\ last.pos < N )
          => last.res = Ok(last.pos)

\* What holds of the two lookups in the code: they are mutual inverses on
\* the nodes whose identifier has the default scheme version.
InversesDefaultVersion ==
  LET N == OnDiskMapLen(2)
      fwd == View(1)
      rev == View(2)
  IN  /\ ( /\ last.op = "lookup_get"
           /\ SameNodes(fwd, rev, N)
           /\ Hits(fwd, N, str_to_bytes(last.pid)) # {}
           /\ last.pid[2] = PID_VERSION )
          => last.res = Ok(last.pid)
      /\ ( /\ last.op = "get_lookup"
           /\ SameNodes(fwd, rev, N)
           /\ last.pos < N
           /\ RevRecAt(rev, last.pos)[1] = PID_VERSION )
          => last.res = Ok(last.pos)

\* Both compositions have been applied to a graph of three nodes.
InversesExercised ==
  /\ last.op \in {"lookup_get", "get_lookup"}
  /\ OnDiskMapLen(2) = 3
  /\ SameNodes(View(1), View(2), 3)
  /\ last.res.ok
  /\ last.op = "get_lookup" => last.res.val = 2

(* --------------------- writes to the reverse index --------------------- *)
\* C12: set(i, p) on a reverse index of length L overwrites only record i:
\* for 0 <= i < L it succeeds, get(i) then returns p and every other record
\* is unchanged; for any i outside [0, L), negative ones included, every
\* record is unchanged; the length never changes.
C12_SetFrame ==
  [][ LET h == last'.h
          before == View(h)
          after == ViewOf(disk', maps', h)
          L == OnDiskMapLen(h)
          i == last'.pos
      IN  (last'.op = "set" /\ IsOpen(h))
          => /\ Len(after) = Len(before)
             /\ maps'[h].length = L
             /\ (0 <= i /\ i < L) =>
                  /\ last'.res.ok
                  /\ getitem(after, L, i).res = Ok(last'.pid)
                  /\ \A k \in (0..(L - 1)) \ {i} :
                       RevRecAt(after, k) = RevRecAt(before, k)
             /\ ~(0 <= i /\ i < L) => after = before
    ]_vars

\* What holds of set(i, p) in the code: the slice assignment writes record i
\* for 0 <= i < L and, the slice bounds being counted from the end of the
\* mapping when negative, record L + i for -L <= i <= -2; for i >= L, for
\* i = -1 and for i < -L the slice is empty and the assignment fails with
\* IndexError.  No other record and no length changes.
SetWritesSlice ==
  [][ LET h == last'.h
          before == View(h)
          after == ViewOf(disk', maps', h)
          L == OnDiskMapLen(h)
          i == last'.pos
          k == IF i < 0 THEN L + i ELSE i
      IN  (last'.op = "set" /\ IsOpen(h))
          => /\ Len(after) = Len(before)
             /\ maps'[h].length = L
             /\ IF (0 <= i /\ i < L) \/ (0 - L <= i /\ i <= 0 - 2)
                  THEN /\ last'.res.ok
                       /\ RevRecAt(after, k) = str_to_bytes(last'.pid)
                       /\ \A n \in (0..(L - 1)) \ {k} :
                            RevRecAt(after, n) = RevRecAt(before, n)
                  ELSE /\ ~last'.res.ok
                       /\ last'.res.err = "IndexError"
                       /\ after = before
    ]_vars

\* set(-2, p) has succeeded on a map of three records.
NegativeSetExercised ==
  /\ last.op = "set"
  /\ last.pos = 0 - 2
  /\ last.res.ok
  /\ OnDiskMapLen(last.h) = 3
  /\ RevRecAt(View(last.h), 1) = str_to_bytes(last.pid)
  /\ RevRecAt(View(last.h), 0) # str_to_bytes(last.pid)

(* ----------------------- two maps of one file -------------------------- *)
\* The lengths a shared reverse index is created with
SharedLengths == 1..(MaxLen - 1)

\* One reverse index file and two map objects: map 1 creates the file or
\* opens it, map 2 opens it while map 1 may still be open.
NextShared ==
  \/ \E n \in SharedLengths : OnDiskMapInit(1, "IntToPidMap", "wb", n)
  \/ \E h \in {1, 2}, mode \in {"rb", "rb+"} :
       OnDiskMapInit(h, "IntToPidMap", mode, None)
  \/ \E h \in {1, 2} : Close(h)
  \/ \E h \in {1, 2}, pos \in 0..(MaxLen - 2), pid \in SetPids :
       Set(h, pos, pid)
  \/ \E h \in {1, 2}, pos \in 0..(MaxLen - 2) : Get(h, pos)

SpecShared == Init /\ [][NextShared]_vars

\* The other open maps of the file map h is a map of
OtherOpeners(h) ==
  {g \in Handles \ {h} : IsOpen(g) /\ maps[g].cls = maps[h].cls}

\* C13: a successful write through a map opened 'wb' or 'rb+' is in the
\* file, where a later opener finds it, and every other open map of the file
\* shows it from then on; a write through a map opened 'rb' changes neither
\* the file nor what any other open map shows.
C13_SharedVisibility ==
  [][ LET h == last'.h
          cls == maps[h].cls
          file == disk'[cls].data
      IN  (last'.op = "set" /\ IsOpen(h) /\ last'.res.ok)
          => IF maps[h].mode \in {"wb", "rb+"}
               THEN /\ RevRecAt(file, last'.pos) = str_to_bytes(last'.pid)
                    /\ \A g \in OtherOpeners(h) :
                         ViewOf(disk', maps', g) = file
               ELSE /\ disk' = disk
                    /\ \A g \in OtherOpeners(h) :
                         ViewOf(disk', maps', g) = View(g)
    ]_vars

\* What holds of a write through a shared mapping in the code: it is in the
\* file and every other open map shows it, except a private mapping that
\* has been written through, which keeps showing its own copy.
SharedWriteVisible ==
  [][ LET h == last'.h
          cls == maps[h].cls
          file == disk'[cls].data
      IN  (last'.op = "set" /\ IsOpen(h) /\ last'.res.ok)
          => IF maps[h].mode \in {"wb", "rb+"}
               THEN /\ RevRecAt(file, last'.pos) = str_to_bytes(last'.pid)
                    /\ \A g \in OtherOpeners(h) :
                         IF maps[g].cow
                           THEN ViewOf(disk', maps', g) = View(g)
                           ELSE ViewOf(disk', maps', g) = file
               ELSE /\ disk' = disk
                    /\ \A g \in OtherOpeners(h) :
                         ViewOf(disk', maps', g) = View(g)
    ]_vars

\* Map 2, opened 'rb' and never written through, shows a record that map 1
\* wrote to the file after map 2 was opened.
SharedWriteSeen ==
  /\ last.op = "get"
  /\ last.h = 2
  /\ last.res.ok
  /\ IsOpen(1) /\ IsOpen(2)
  /\ maps[1].mode = "wb"
  /\ maps[2].mode = "rb"
  /\ ~maps[2].cow

(* ------------------------- the length of a map ------------------------- *)
\* The operations on an open map
MapOps == {"lookup", "update", "get", "set", "iterate", "delete"}

\* C14: the length of an open map is the one computed when it was opened:
\* a successful open leaves length() * record_size equal to the file size,
\* and every lookup, update, get, set, iterate and delete on the open map,
\* successful or not, leaves the map open with the same length() and the
\* file with the same size; delete always fails, with NotImplementedError
\* (UnsupportedOperation).
C14_LengthFixed ==
  [][ LET h == last'.h
          cls == maps'[h].cls
      IN  /\ (last'.op = "open" /\ last'.res.ok) =>
               /\ maps'[h].length = last'.res.val
               /\ Len(disk'[cls].data) = maps'[h].length * RECORD_SIZE(cls)
          /\ (last'.op \in MapOps /\ IsOpen(h)) =>
               /\ maps'[h].st = "open"
               /\ maps'[h].length = OnDiskMapLen(h)
               /\ Len(disk'[cls].data) = Len(disk[cls].data)
               /\ Len(ViewOf(disk', maps', h)) = Len(View(h))
               /\ Len(disk'[cls].data) = maps'[h].length * RECORD_SIZE(cls)
          /\ last'.op = "delete" =>
               /\ ~last'.res.ok
               /\ last'.res.err = "NotImplementedError"
               /\ disk' = disk
               /\ maps' = maps
    ]_vars

\* A delete has failed on a map of three records opened for updating, one of
\* whose values has been updated to 1.
C14_Witness ==
  /\ last.op = "delete"
  /\ ~last.res.ok
  /\ IsOpen(last.h)
  /\ maps[last.h].mode = "rb+"
  /\ OnDiskMapLen(last.h) = 3
  /\ Len(disk["PidToIntMap"].data) = 3 * FwdSize
  /\ \E i \in 0..2 : ValAt(View(last.h), i) = pack_q(1)

(* ------------------- lookups on any file contents ---------------------- *)
\* A forward index file of any records, in any order, read through one map.
NextSearch ==
  \/ \E pid \in IndexPids, int \in Ints :
       AppendRecord("PidToIntMap", pid, int, MaxSearchLen)
  \/ OnDiskMapInit(1, "PidToIntMap", "rb", None)
  \/ Close(1)
  \/ \E pid \in IndexPids : Lookup(1, pid)

SpecSearch == Init /\ [][NextSearch]_vars

\* Some record's key is smaller than the key of a record before it
OutOfOrder(mm, len) ==
  \E i, j \in 0..(len - 1) : i < j /\ BytesLess(KeyAt(mm, j), KeyAt(mm, i))

\* C15: a forward index file whose keys are out of order opens like any
\* other, and a lookup on it ends as on a sorted one, with a node id or with
\* KeyError (NotFound): nothing reports the disorder.
C15_UnsortedUnchecked ==
  LET mm == View(1)
      file == disk["PidToIntMap"].data
  IN  /\ ( /\ last.op = "open"
           /\ OutOfOrder(file, Len(file) \div FwdSize) )
          => /\ last.res.ok
             /\ last.res.val = Len(file) \div FwdSize
      /\ ( /\ last.op = "lookup"
           /\ OutOfOrder(mm, OnDiskMapLen(1)) )
          => \/ last.res.ok
             \/ last.res.err = "KeyError"

\* On a file out of order, the lookup of a key held by a record that is
\* neither the first nor the last has failed with KeyError.
C15_Witness ==
  /\ last.op = "lookup"
  /\ IsOpen(1)
  /\ OutOfOrder(View(1), OnDiskMapLen(1))
  /\ ~last.res.ok
  /\ last.res.err = "KeyError"
  /\ \E i \in 1..(OnDiskMapLen(1) - 2) :
       KeyAt(View(1), i) = str_to_bytes(last.pid)

\* C17: whatever the file holds, a node id that lookup(k) returns is the
\* value of a record, at a position in [0, length), whose key bytes are the
\* encoding of k; and every position a lookup reads is in [0, length).
C17_LookupSound ==
  last.op = "lookup" =>
    LET mm == View(last.h)
        L == OnDiskMapLen(last.h)
    IN  /\ last.res.ok =>
             \E p \in 0..(L - 1) :
               /\ KeyAt(mm, p) = str_to_bytes(last.pid)
               /\ ValAt(mm, p) = pack_q(last.res.val)
        /\ \A n \in DOMAIN last.reads :
             0 <= last.reads[n] /\ last.reads[n] < L

\* A lookup has returned 1 on a file out of order that holds its key twice,
\* with the values 0 and 1.
C17_Witness ==
  /\ last.op = "lookup"
  /\ IsOpen(last.h)
  /\ last.res.ok
  /\ last.res.val = 1
  /\ OutOfOrder(View(last.h), OnDiskMapLen(last.h))
  /\ \E p, q \in Hits(View(last.h), OnDiskMapLen(last.h), str_to_bytes(last.pid)) :
       /\ ValAt(View(last.h), p) = pack_q(0)
       /\ ValAt(View(last.h), q) = pack_q(1)

\* floor(log2(n)) for n >= 1
RECURSIVE Log2Floor(_)
Log2Floor(n) == IF n <= 1 THEN 0 ELSE 1 + Log2Floor(n \div 2)

\* The number of positions of the interval [min, max]
Width(span) == IF span[1] > span[2] THEN 0 ELSE span[2] - span[1] + 1

\* C18: the search of lookup terminates on any file contents: each test of
\* the loop condition sees an interval [min, max] inside the previous one
\* and strictly smaller, every test but a final failing one reads one
\* record, at most floor(log2(L)) + 1 records are read on a map of length L
\* (none on an empty one), and the search ends with a node id or, the
\* interval having collapsed (min > max), with KeyError (NotFound).
C18_SearchTerminates ==
  /\ \A pid \in IndexPids :
       /\ find(<<>>, 0, pid).reads = <<>>
       /\ find(<<>>, 0, pid).res = Err("KeyError")
  /\ last.op = "lookup" =>
       LET L == OnDiskMapLen(last.h)
           spans == last.spans
           reads == last.reads
       IN  /\ spans[1] = <<0, L - 1>>
           /\ \A n \in 1..(Len(spans) - 1) :
                /\ Width(spans[n + 1]) < Width(spans[n])
                /\ spans[n + 1][1] >= spans[n][1]
                /\ spans[n + 1][2] <= spans[n][2]
           /\ Len(reads) <= Log2Floor(L) + 1
           /\ IF last.res.ok
                THEN Len(spans) = Len(reads)
                ELSE /\ last.res.err = "KeyError"
                     /\ Len(spans) = Len(reads) + 1
                     /\ spans[Len(spans)][1] > spans[Len(spans)][2]

\* A lookup on a map of four records has failed after reading three of them.
C18_Witness ==
  /\ last.op = "lookup"
  /\ OnDiskMapLen(last.h) = 4
  /\ ~last.res.ok
  /\ Len(last.reads) = 3

(* ------------------------------ iteration ------------------------------ *)
\* C16: on a forward map of length L whose records are decodable, iterate
\* yields exactly L pairs, the i-th being the identifier and the node id
\* stored in record i, hence in ascending key order when the file is
\* sorted; it changes no record, and a second iteration with no write in
\* between yields the same sequence.
C16_IterateRecords ==
  [][ LET h == last'.h
          mm == View(h)
          L == OnDiskMapLen(h)
          items == last'.items
      IN  ( /\ last'.op = "iterate"
            /\ IsOpen(h)
            /\ maps[h].cls = "PidToIntMap"
            /\ \A i \in 0..(L - 1) : Decodable(KeyAt(mm, i)) )
          => /\ last'.raised = "none"
             /\ Len(items) = L
             /\ \A i \in 0..(L - 1) :
                  /\ str_to_bytes(items[i + 1][1]) = KeyAt(mm, i)
                  /\ pack_q(items[i + 1][2]) = ValAt(mm, i)
             /\ StrictlyAscending(mm, L) =>
                  \A i, j \in 1..L :
                    i < j => BytesLess(str_to_bytes(items[i][1]),
                                       str_to_bytes(items[j][1]))
             /\ disk' = disk
             /\ maps' = maps
             /\ PidToIntMap_iter(ViewOf(disk', maps', h), L, 0, <<>>).items = items
    ]_vars

\* What holds of iterate in the code: it yields L pairs, the i-th being the
\* decoding of record i, which is the stored pair when the record's scheme
\* version is the default one; it changes nothing and can be run again.
IterateDecodesRecords ==
  [][ LET h == last'.h
          mm == View(h)
          L == OnDiskMapLen(h)
          items == last'.items
      IN  ( /\ last'.op = "iterate"
            /\ IsOpen(h)
            /\ maps[h].cls = "PidToIntMap"
            /\ \A i \in 0..(L - 1) : Decodable(KeyAt(mm, i)) )
          => /\ last'.raised = "none"
             /\ Len(items) = L
             /\ \A i \in 0..(L - 1) :
                  /\ items[i + 1][1] = bytes_to_str(KeyAt(mm, i)).val
                  /\ pack_q(items[i + 1][2]) = ValAt(mm, i)
                  /\ KeyAt(mm, i)[1] = PID_VERSION =>
                       str_to_bytes(items[i + 1][1]) = KeyAt(mm, i)
             /\ disk' = disk
             /\ maps' = maps
             /\ PidToIntMap_iter(ViewOf(disk', maps', h), L, 0, <<>>).items = items
    ]_vars

\* An iteration has yielded the three records of a sorted map.
IterateExercised ==
  /\ last.op = "iterate"
  /\ OnDiskMapLen(last.h) = 3
  /\ StrictlyAscending(View(last.h), 3)
  /\ Len(last.items) = 3

(* -------------- the compression driver (webgraph.py) ------------------- *)
CompressionStep ==
  [MPH |-> 1, BV |-> 2, BV_OBL |-> 3, BFS |-> 4, PERMUTE |-> 5,
   PERMUTE_OBL |-> 6, STATS |-> 7, TRANSPOSE |-> 8, TRANSPOSE_OBL |-> 9,
   MAPS |-> 10, CLEAN_TMP |-> 11]

\* list(CompressionStep): the members in definition order
COMP_SEQ ==
  [i \in 1..Cardinality(DOMAIN CompressionStep) |->
     CHOOSE s \in DOMAIN CompressionStep : CompressionStep[s] = i]

\* The exit codes of a step's shell command
ExitCodes == {0, 1, 0 - 9}

\* do_step returning the exit code whatever it is
do_step_ignore_rc(step, rc) == Ok(rc)

\* do_step(step, conf), the command exiting with code rc
do_step(step, rc) ==
  IF rc # 0 THEN Err("RuntimeError") ELSE Ok(rc)

\* compress(graph_name, in_dir, out_dir, steps, conf) is called, once; pos
\* is the position in COMP_SEQ the loop has come to, ran the steps run with
\* their exit codes.
Compress(steps) ==
  /\ comp.status = "idle"
  /\ comp' = [status |-> "running", arg |-> steps,
              steps |-> IF steps = {} THEN {COMP_SEQ[i] : i \in DOMAIN COMP_SEQ}
                        ELSE steps,
              pos |-> 1, seq_no |-> 0, ran |-> <<>>]
  /\ UNCHANGED <<disk, maps, last, codec>>

\* An iteration of the loop on a step that is not selected
SkipStep ==
  /\ comp.status = "running"
  /\ comp.pos <= Len(COMP_SEQ)
  /\ COMP_SEQ[comp.pos] \notin comp.steps
  /\ comp' = [comp EXCEPT !.pos = @ + 1]
  /\ UNCHANGED <<disk, maps, last, codec>>

\* An iteration of the loop on a selected step, whose command exits with rc
RunStep(rc) ==
  LET step == COMP_SEQ[comp.pos]
      r == do_step(step, rc)
  IN  /\ comp.status = "running"
      /\ comp.pos <= Len(COMP_SEQ)
      /\ step \in comp.steps
      /\ comp' = [comp EXCEPT
           !.seq_no = @ + 1,
           !.ran = Append(@, [step |-> step, rc |-> rc]),
           !.pos = IF r.ok THEN @ + 1 ELSE @,
           !.status = IF r.ok THEN @ ELSE "failed"]
      /\ UNCHANGED <<disk, maps, last, codec>>

\* The loop is over: compress returns
CompressReturn ==
  /\ comp.status = "running"
  /\ comp.pos > Len(COMP_SEQ)
  /\ comp' = [comp EXCEPT !.status = "done"]
  /\ UNCHANGED <<disk, maps, last, codec>>

NextComp ==
  \/ \E steps \in SUBSET DOMAIN CompressionStep : Compress(steps)
  \/ SkipStep
  \/ \E rc \in ExitCodes : RunStep(rc)
  \/ CompressReturn

SpecComp == Init /\ [][NextComp]_vars

\* The position of a step in the pipeline
StepIndex(step) == CHOOSE i \in DOMAIN COMP_SEQ : COMP_SEQ[i] = step

\* C19: compress runs the selected steps (all of them when the selection is
\* empty) in the order MPH, BV, BV_OBL, BFS, PERMUTE, PERMUTE_OBL, STATS,
\* TRANSPOSE, TRANSPOSE_OBL, MAPS, CLEAN_TMP, each at most once and no other
\* step; a step is run only when every selected step before it has been
\* run and exited with code 0; a step exiting with another code makes
\* compress fail, and no step runs after it.
C19_PipelineOrder ==
  comp.status # "idle" =>
    LET ran == comp.ran
        n == Len(ran)
    IN  /\ COMP_SEQ = <<"MPH", "BV", "BV_OBL", "BFS", "PERMUTE", "PERMUTE_OBL",
                        "STATS", "TRANSPOSE", "TRANSPOSE_OBL", "MAPS",
                        "CLEAN_TMP">>
        /\ comp.steps = IF comp.arg = {} THEN DOMAIN CompressionStep
                        ELSE comp.arg
        /\ \A i \in 1..n : ran[i].step \in comp.steps
        /\ \A i, j \in 1..n :
             i < j => StepIndex(ran[i].step) < StepIndex(ran[j].step)
        /\ \A i \in 1..n :
             \A s \in comp.steps :
               StepIndex(s) < StepIndex(ran[i].step) =>
                 \E j \in 1..(i - 1) : ran[j].step = s /\ ran[j].rc = 0
        /\ \A i \in 1..(n - 1) : ran[i].rc = 0
        /\ comp.status = "failed" <=> (n > 0 /\ ran[n].rc # 0)
        /\ comp.status = "done" =>
             /\ {ran[i].step : i \in 1..n} = comp.steps
             /\ \A i \in 1..n : ran[i].rc = 0

\* Of the selection {STATS, BV, MPH}, MPH has run and exited with 0, then BV
\* has exited with 1 and compress has failed before running STATS.
C19_Witness ==
  /\ comp.status = "failed"
  /\ comp.arg = {"STATS", "BV", "MPH"}
  /\ comp.ran = <<[step |-> "MPH", rc |-> 0], [step |-> "BV", rc |-> 1]>>

\* A run with an empty selection has run the eleven steps and returned.
C19_WitnessAll ==
  /\ comp.status = "done"
  /\ comp.arg = {}
  /\ Len(comp.ran) = Len(COMP_SEQ)
====
